---- MODULE Spec2Model ----
(***************************************************************************)
(* pjourney: the roll and development lifecycle over one sqlite3           *)
(* connection.  The store is modelled twice: `conn` is what the shared     *)
(* connection reads (committed rows plus the writes of its open implicit   *)
(* transaction), `disk` is what has been committed.  No function of        *)
(* db/database.py and no handler of the screens ever calls rollback, so a  *)
(* statement that raises leaves the earlier writes of the same function    *)
(* pending on the connection until the next commit.                        *)
(***************************************************************************)
EXTENDS Integers, Sequences, FiniteSets, TLC

\* ---------------------------------------------------------------- bounds
MaxStocks == 2      \* film stocks ever added
MaxRolls == 2       \* rolls ever created
MaxLive == 1        \* rolls the lifecycle follows at a time
MaxFrames == 2      \* largest frames_per_roll entered in the film-stock form
MaxQty == 1         \* largest quantity_on_hand entered in the film-stock form
MaxDevs == 2        \* roll_development rows ever inserted by a direct caller
MaxStepRows == 4    \* development_steps rows ever inserted
MaxRecipes == 1     \* dev_recipes rows ever inserted
MaxRecipeStepRows == 4 \* dev_recipe_steps rows ever inserted
MaxDay == 2         \* days the clock runs through
MaxFailures == 1    \* storage failures (I/O errors) injected in one run

\* ---------------------------------------------------------------- values
None == 0

\* duration_seconds: int | None.  None is the empty tuple, n seconds is <<n>>.
NoSeconds == <<>>

Seconds(n) == <<n>>

ROLL_STATUSES == <<"fresh", "loaded", "shooting", "finished", "developing", "developed">>

DEVELOPMENT_TYPES == {"self", "lab"}

PROCESS_TYPES == {"B&W", "C-41"}

DB_SAVE == "PJ-DB02"

DB_DELETE == "PJ-DB03"

VAL_DATE == "PJ-VAL02"

StockIds == 1..MaxStocks
Cameras == {1}
Lenses == {1}
Days == 1..MaxDay
LabNames == {"Acme Lab"}
QtyInputs == {0 - 1, 0, MaxQty}
FprInputs == {0, MaxFrames}
ScanDateInputs == Days \cup {None, 0 - 1}   \* a date, blank, not a date
ScanNotes == {"", "flatbed"}
FailModes == {"statement", "transaction"}

VARIABLES conn, disk, today, failures, last

vars == <<conn, disk, today, failures, last>>

\* ------------------------------------------------------------ the schema
\* init_db: every table empty, sqlite_sequence (AUTOINCREMENT) at 0.
EmptyStore ==
    [film_stocks       |-> <<>>,
     rolls             |-> <<>>,
     frames            |-> <<>>,
     roll_development  |-> <<>>,
     development_steps |-> <<>>,
     dev_recipes       |-> <<>>,
     dev_recipe_steps  |-> <<>>,
     seq |-> [film_stocks |-> 0, rolls |-> 0, frames |-> 0,
              roll_development |-> 0, development_steps |-> 0,
              dev_recipes |-> 0, dev_recipe_steps |-> 0]]

\* The status default is a later one.
Roll_loaded(film_stock_id) ==
    [film_stock_id |-> film_stock_id, camera_id |-> None, lens_id |-> None,
     status |-> "loaded", loaded_date |-> None, finished_date |-> None,
     sent_for_dev_date |-> None, developed_date |-> None, scan_date |-> None,
     scan_notes |-> ""]

\* The Roll dataclass with its defaults.
Roll(film_stock_id) ==
    [film_stock_id |-> film_stock_id, camera_id |-> None, lens_id |-> None,
     status |-> "fresh", loaded_date |-> None, finished_date |-> None,
     sent_for_dev_date |-> None, developed_date |-> None, scan_date |-> None,
     scan_notes |-> ""]

StatusIndex(status) == CHOOSE i \in 1..Len(ROLL_STATUSES) : ROLL_STATUSES[i] = status

Remove(f, ids) == [i \in DOMAIN f \ ids |-> f[i]]

Min(a, b) == IF a < b THEN a ELSE b

Max(a, b) == IF a > b THEN a ELSE b

\* ------------------------------------------------- the implicit transaction
\* P[k] is the connection's view after the first k statements of a function
\* with n statements followed by conn.commit().  fail = 0: all statements run
\* and the commit succeeds.  fail in 1..n: statement `fail` raises.  fail =
\* n+1: the commit raises.  A raising statement undoes itself only; the
\* transaction stays open ("statement"), unless sqlite rolls the whole
\* transaction back on its own ("transaction").
Outcome(d, P, n, fail, mode) ==
    IF fail = 0
    THEN [view |-> P[n], disk |-> P[n], raised |-> FALSE]
    ELSE IF mode = "transaction"
    THEN [view |-> d.disk, disk |-> d.disk, raised |-> TRUE]
    ELSE [view |-> P[fail - 1], disk |-> d.disk, raised |-> TRUE]

\* ------------------------------------------------------------ film stocks
save_film_stock(d, id, stock, fail, mode) ==
    LET v == d.view
        new == v.seq.film_stocks + 1
        P == [k \in 0..1 |->
                IF k = 0 THEN v
                ELSE IF id = None
                THEN [v EXCEPT !.film_stocks = @ @@ (new :> stock),
                               !.seq.film_stocks = new]
                ELSE [v EXCEPT !.film_stocks =
                        [i \in DOMAIN @ |-> IF i = id THEN stock ELSE @[i]]]]
    IN Outcome(d, P, 1, fail, mode)

\* rolls.film_stock_id is not checked: the row goes whether or not a roll
\* names it.
delete_film_stock_unchecked(d, stock_id, fail, mode) ==
    LET v == d.view
        P == [k \in 0..1 |->
                IF k = 0 THEN v ELSE [v EXCEPT !.film_stocks = Remove(@, {stock_id})]]
    IN Outcome(d, P, 1, fail, mode)

\* delete_film_stock: DELETE film_stocks WHERE id; commit.  With
\* PRAGMA foreign_keys = ON the DELETE raises while a roll of the connection's
\* view names the stock (rolls.film_stock_id REFERENCES film_stocks, no
\* ON DELETE action).
delete_film_stock(d, stock_id, fail, mode) ==
    LET v == d.view
        referenced == \E r \in DOMAIN v.rolls : v.rolls[r].film_stock_id = stock_id
        P == [k \in 0..1 |->
                IF k = 0 THEN v ELSE [v EXCEPT !.film_stocks = Remove(@, {stock_id})]]
    IN  IF referenced
        THEN Outcome(d, P, 1, 1, "statement")
        ELSE Outcome(d, P, 1, fail, mode)

\* FilmStockFormModal.save: digital media zeroes both numbers; analog takes
\* int() of the two inputs, whatever their sign.
FilmStockForm(media_type, fpr, qty) ==
    IF media_type = "digital"
    THEN [frames_per_roll |-> 0, quantity_on_hand |-> 0]
    ELSE [frames_per_roll |-> fpr, quantity_on_hand |-> qty]

\* ------------------------------------------------------------------ rolls
\* range(0, frames_per_roll)
frame_number_from_zero(i) == i - 1

\* range(1, frames_per_roll + 1): the i-th INSERT writes frame_number i.
frame_number(i) == i

\* quantity_on_hand - 1, without the floor
decremented_unfloored(quantity_on_hand) == quantity_on_hand - 1

\* MAX(quantity_on_hand - 1, 0)
decremented(quantity_on_hand) == Max(quantity_on_hand - 1, 0)

\* The frames create_roll inserts: none unless frames_per_roll > 0.
frame_count(frames_per_roll) == IF frames_per_roll > 0 THEN frames_per_roll ELSE 0

\* create_roll: INSERT rolls; INSERT frames for i in 1..frames_per_roll;
\* UPDATE film_stocks; commit.  rolls.film_stock_id REFERENCES film_stocks.
\* The INSERT writes the status, camera, lens and four dates of the Roll it
\* is given; scan_date and scan_notes are not among its columns.
create_roll(d, roll, frames_per_roll, fail, mode) ==
    LET v == d.view
        roll_id == v.seq.rolls + 1
        nf == frame_count(frames_per_roll)
        n == nf + 2
        fk == roll.film_stock_id \notin DOMAIN v.film_stocks
        row == [roll EXCEPT !.scan_date = None, !.scan_notes = ""]
        withRoll == [v EXCEPT !.rolls = @ @@ (roll_id :> row), !.seq.rolls = roll_id]
        withFrames(j) ==
            [withRoll EXCEPT
                !.frames = @ @@ [i \in (v.seq.frames + 1)..(v.seq.frames + j) |->
                                   [roll_id |-> roll_id,
                                    frame_number |-> frame_number(i - v.seq.frames),
                                    lens_id |-> roll.lens_id]],
                !.seq.frames = @ + j]
        P == [k \in 0..n |->
                IF k = 0 THEN v
                ELSE IF k < n THEN withFrames(Min(k - 1, nf))
                ELSE [withFrames(nf) EXCEPT
                        !.film_stocks =
                          [s \in DOMAIN @ |->
                             IF s = roll.film_stock_id
                             THEN [@[s] EXCEPT !.quantity_on_hand = decremented(@)]
                             ELSE @[s]]]]
    IN  IF fk
        THEN Outcome(d, P, n, 1, "statement") @@ [id |-> None]
        ELSE Outcome(d, P, n, fail, mode) @@ [id |-> roll_id]

\* The statements create_roll runs before its commit.
create_roll_statements(frames_per_roll) == frame_count(frames_per_roll) + 2

\* update_roll: UPDATE rolls SET <every column> WHERE id; commit.
update_roll(d, id, roll, fail, mode) ==
    LET v == d.view
        P == [k \in 0..1 |->
                IF k = 0 THEN v
                ELSE [v EXCEPT !.rolls = [i \in DOMAIN @ |-> IF i = id THEN roll ELSE @[i]]]]
    IN Outcome(d, P, 1, fail, mode)

\* The lens is merged: only frames without a lens take it.
set_roll_frames_lens_merged(d, roll_id, lens_id, fail, mode) ==
    LET v == d.view
        P == [k \in 0..1 |->
                IF k = 0 THEN v
                ELSE [v EXCEPT !.frames =
                        [i \in DOMAIN @ |->
                           IF @[i].roll_id = roll_id /\ @[i].lens_id = None
                           THEN [@[i] EXCEPT !.lens_id = lens_id] ELSE @[i]]]]
    IN Outcome(d, P, 1, fail, mode)

\* set_roll_frames_lens: UPDATE frames SET lens_id WHERE roll_id; commit.
set_roll_frames_lens(d, roll_id, lens_id, fail, mode) ==
    LET v == d.view
        P == [k \in 0..1 |->
                IF k = 0 THEN v
                ELSE [v EXCEPT !.frames =
                        [i \in DOMAIN @ |->
                           IF @[i].roll_id = roll_id
                           THEN [@[i] EXCEPT !.lens_id = lens_id] ELSE @[i]]]]
    IN Outcome(d, P, 1, fail, mode)

\* PRAGMA foreign_keys left off: only the rolls rows go.
CascadeRolls_off(v, gone) == [v EXCEPT !.rolls = Remove(@, gone)]

\* update_frame: UPDATE frames SET <the editable columns, lens_id among them>
\* WHERE id; commit.  frame_number and roll_id are not among the columns.
update_frame(d, frame_id, lens_id, fail, mode) ==
    LET v == d.view
        P == [k \in 0..1 |->
                IF k = 0 THEN v
                ELSE [v EXCEPT !.frames =
                        [i \in DOMAIN @ |->
                           IF i = frame_id
                           THEN [@[i] EXCEPT !.lens_id = lens_id] ELSE @[i]]]]
    IN Outcome(d, P, 1, fail, mode)

\* ON DELETE CASCADE of roll_development.roll_id and of
\* development_steps.development_id.
CascadeRolls(v, gone) ==
    LET devs == {i \in DOMAIN v.roll_development : v.roll_development[i].roll_id \in gone}
        steps == {i \in DOMAIN v.development_steps :
                    v.development_steps[i].development_id \in devs}
        frames == {i \in DOMAIN v.frames : v.frames[i].roll_id \in gone}
    IN [v EXCEPT !.rolls = Remove(@, gone),
                 !.frames = Remove(@, frames),
                 !.roll_development = Remove(@, devs),
                 !.development_steps = Remove(@, steps)]

\* delete_roll: DELETE frames WHERE roll_id; DELETE rolls WHERE id; commit.
delete_roll(d, roll_id, fail, mode) ==
    LET v == d.view
        noFrames == [v EXCEPT !.frames =
                        Remove(@, {i \in DOMAIN @ : @[i].roll_id = roll_id})]
        P == [k \in 0..2 |->
                IF k = 0 THEN v
                ELSE IF k = 1 THEN noFrames
                ELSE CascadeRolls(noFrames, {roll_id})]
    IN Outcome(d, P, 2, fail, mode)

\* ------------------------------------------------------ roll development
\* The column without its UNIQUE constraint.
unique_roll_id_unchecked(v, roll_id) == TRUE

\* The constraint on the wrong column: the row's id instead of its roll_id.
unique_roll_id_on_id(v, roll_id) ==
    \A i \in DOMAIN v.roll_development : i # roll_id

\* roll_development.roll_id is NOT NULL UNIQUE REFERENCES rolls(id).
unique_roll_id(v, roll_id) ==
    \A i \in DOMAIN v.roll_development : v.roll_development[i].roll_id # roll_id

\* Each INSERT writes the step_order the supplied step carries.
step_rows_as_given(v, dev_id, steps, j) ==
    [i \in (v.seq.development_steps + 1)..(v.seq.development_steps + j) |->
        [development_id |-> dev_id,
         step_order |-> steps[i - v.seq.development_steps].step_order,
         chemical_name |-> steps[i - v.seq.development_steps].chemical_name,
         temperature |-> steps[i - v.seq.development_steps].temperature,
         duration_seconds |-> steps[i - v.seq.development_steps].duration_seconds,
         agitation |-> steps[i - v.seq.development_steps].agitation]]

\* The enumerate(steps) loop: one INSERT per supplied step, step_order = its
\* position counted from 0.
step_rows(v, dev_id, steps, j) ==
    [i \in (v.seq.development_steps + 1)..(v.seq.development_steps + j) |->
        [development_id |-> dev_id,
         step_order |-> i - v.seq.development_steps - 1,
         chemical_name |-> steps[i - v.seq.development_steps].chemical_name,
         temperature |-> steps[i - v.seq.development_steps].temperature,
         duration_seconds |-> steps[i - v.seq.development_steps].duration_seconds,
         agitation |-> steps[i - v.seq.development_steps].agitation]]

\* The old steps are kept.
delete_steps_skipped(v, dev_id) == v

\* DELETE FROM development_steps WHERE development_id = dev_id
delete_steps(v, dev_id) ==
    [v EXCEPT !.development_steps =
        Remove(@, {i \in DOMAIN @ : @[i].development_id = dev_id})]

\* save_roll_development: INSERT (no id) or UPDATE + DELETE of the old steps
\* (id given); then one INSERT per step; commit.
save_roll_development(d, dev, steps, fail, mode) ==
    LET v == d.view
        insert == dev.id = None
        dev_id == IF insert THEN v.seq.roll_development + 1 ELSE dev.id
        row == [roll_id |-> dev.roll_id, dev_type |-> dev.dev_type,
                process_type |-> dev.process_type, lab_name |-> dev.lab_name]
        head == IF insert THEN 1 ELSE 2
        n == head + Len(steps)
        integrity == insert /\ (~unique_roll_id(v, dev.roll_id)
                                \/ dev.roll_id \notin DOMAIN v.rolls)
        written ==
            IF insert
            THEN [v EXCEPT !.roll_development = @ @@ (dev_id :> row),
                           !.seq.roll_development = dev_id]
            ELSE [v EXCEPT !.roll_development =
                    [i \in DOMAIN @ |->
                       IF i = dev_id
                       THEN [row EXCEPT !.roll_id = v.roll_development[i].roll_id]
                       ELSE @[i]]]
        base == IF insert THEN written ELSE delete_steps(written, dev_id)
        withSteps(j) ==
            [base EXCEPT !.development_steps = @ @@ step_rows(v, dev_id, steps, j),
                         !.seq.development_steps = @ + j]
        P == [k \in 0..n |->
                IF k = 0 THEN v
                ELSE IF k < head THEN written
                ELSE withSteps(k - head)]
    IN  IF integrity
        THEN Outcome(d, P, n, 1, "statement") @@ [id |-> None]
        ELSE Outcome(d, P, n, fail, mode) @@ [id |-> dev_id]

\* The DevelopmentStep and DevRecipeStep dataclasses (the same shape) with
\* their defaults.
DevelopmentStep(chemical_name) ==
    [chemical_name |-> chemical_name, step_order |-> 0, temperature |-> "",
     duration_seconds |-> NoSeconds, agitation |-> ""]

\* The RollDevelopment dataclass with its defaults.
RollDevelopment(dev_type, process_type, lab_name) ==
    [id |-> None, roll_id |-> None, dev_type |-> dev_type,
     process_type |-> process_type, lab_name |-> lab_name]

\* A handler called with no development record.
NoArg == [dev |-> RollDevelopment("self", "", ""), steps |-> <<>>, lens |-> None,
          date |-> None, notes |-> "", recipe |-> None, stock |-> None,
          roll |-> Roll(None)]

get_roll_development_by_roll(v, roll_id) ==
    {i \in DOMAIN v.roll_development : v.roll_development[i].roll_id = roll_id}

\* get_development_steps: the chemical names of a record, ORDER BY step_order
\* (rows of equal step_order come in rowid order).
RECURSIVE OrderedSteps(_, _)
OrderedSteps(v, ids) ==
    IF ids = {} THEN <<>>
    ELSE LET i == CHOOSE x \in ids :
                    \A y \in ids :
                        \/ v.development_steps[x].step_order < v.development_steps[y].step_order
                        \/ /\ v.development_steps[x].step_order = v.development_steps[y].step_order
                           /\ x <= y
         IN <<v.development_steps[i].chemical_name>> \o OrderedSteps(v, ids \ {i})

get_development_steps(v, development_id) ==
    OrderedSteps(v, {i \in DOMAIN v.development_steps :
                        v.development_steps[i].development_id = development_id})

\* development_steps.development_id without ON DELETE CASCADE: the steps stay.
delete_roll_development_uncascaded(d, roll_id, fail, mode) ==
    LET v == d.view
        P == [k \in 0..1 |->
                IF k = 0 THEN v
                ELSE [v EXCEPT !.roll_development =
                        Remove(@, {i \in DOMAIN @ : @[i].roll_id = roll_id})]]
    IN Outcome(d, P, 1, fail, mode)

\* delete_roll_development: DELETE roll_development WHERE roll_id; commit.
\* The steps go by ON DELETE CASCADE.
delete_roll_development(d, roll_id, fail, mode) ==
    LET v == d.view
        devs == get_roll_development_by_roll(v, roll_id)
        P == [k \in 0..1 |->
                IF k = 0 THEN v
                ELSE [v EXCEPT
                        !.roll_development = Remove(@, devs),
                        !.development_steps =
                            Remove(@, {i \in DOMAIN @ : @[i].development_id \in devs})]]
    IN Outcome(d, P, 1, fail, mode)

\* ---------------------------------------------------------------- recipes
\* The DevRecipe dataclass with its defaults.
DevRecipe(process_type) == [id |-> None, process_type |-> process_type]

\* The enumerate(steps) loop of save_dev_recipe.
recipe_step_rows(v, recipe_id, steps, j) ==
    [i \in (v.seq.dev_recipe_steps + 1)..(v.seq.dev_recipe_steps + j) |->
        [recipe_id |-> recipe_id,
         step_order |-> i - v.seq.dev_recipe_steps - 1,
         chemical_name |-> steps[i - v.seq.dev_recipe_steps].chemical_name,
         temperature |-> steps[i - v.seq.dev_recipe_steps].temperature,
         duration_seconds |-> steps[i - v.seq.dev_recipe_steps].duration_seconds,
         agitation |-> steps[i - v.seq.dev_recipe_steps].agitation]]

\* save_dev_recipe: INSERT (no id) or UPDATE + DELETE of the old steps (id
\* given); then one INSERT per step; commit.
save_dev_recipe(d, recipe, steps, fail, mode) ==
    LET v == d.view
        insert == recipe.id = None
        recipe_id == IF insert THEN v.seq.dev_recipes + 1 ELSE recipe.id
        row == [process_type |-> recipe.process_type]
        head == IF insert THEN 1 ELSE 2
        n == head + Len(steps)
        written ==
            IF insert
            THEN [v EXCEPT !.dev_recipes = @ @@ (recipe_id :> row),
                           !.seq.dev_recipes = recipe_id]
            ELSE [v EXCEPT !.dev_recipes =
                    [i \in DOMAIN @ |-> IF i = recipe_id THEN row ELSE @[i]]]
        base == IF insert THEN written
                ELSE [written EXCEPT !.dev_recipe_steps =
                        Remove(@, {i \in DOMAIN @ : @[i].recipe_id = recipe_id})]
        withSteps(j) ==
            [base EXCEPT !.dev_recipe_steps = @ @@ recipe_step_rows(v, recipe_id, steps, j),
                         !.seq.dev_recipe_steps = @ + j]
        P == [k \in 0..n |->
                IF k = 0 THEN v
                ELSE IF k < head THEN written
                ELSE withSteps(k - head)]
    IN  Outcome(d, P, n, fail, mode) @@ [id |-> recipe_id]

\* get_dev_recipe_steps: the rows of a recipe, ORDER BY step_order (rows of
\* equal step_order in rowid order).
RECURSIVE OrderedRecipeSteps(_, _)
OrderedRecipeSteps(v, ids) ==
    IF ids = {} THEN <<>>
    ELSE LET i == CHOOSE x \in ids :
                    \A y \in ids :
                        \/ v.dev_recipe_steps[x].step_order < v.dev_recipe_steps[y].step_order
                        \/ /\ v.dev_recipe_steps[x].step_order = v.dev_recipe_steps[y].step_order
                           /\ x <= y
         IN <<v.dev_recipe_steps[i]>> \o OrderedRecipeSteps(v, ids \ {i})

get_dev_recipe_steps(v, recipe_id) ==
    OrderedRecipeSteps(v, {i \in DOMAIN v.dev_recipe_steps :
                            v.dev_recipe_steps[i].recipe_id = recipe_id})

\* Recipe steps and development steps in one table: the delete also takes
\* the development steps stored under the same owner id.
delete_dev_recipe_shared(d, recipe_id, fail, mode) ==
    LET v == d.view
        P == [k \in 0..1 |->
                IF k = 0 THEN v
                ELSE [v EXCEPT
                        !.dev_recipes = Remove(@, {recipe_id}),
                        !.dev_recipe_steps =
                            Remove(@, {i \in DOMAIN @ : @[i].recipe_id = recipe_id}),
                        !.development_steps =
                            Remove(@, {i \in DOMAIN @ : @[i].development_id = recipe_id})]]
    IN Outcome(d, P, 1, fail, mode)

\* delete_dev_recipe: DELETE dev_recipes WHERE id; commit.  The steps go by
\* ON DELETE CASCADE.
delete_dev_recipe(d, recipe_id, fail, mode) ==
    LET v == d.view
        P == [k \in 0..1 |->
                IF k = 0 THEN v
                ELSE [v EXCEPT
                        !.dev_recipes = Remove(@, {recipe_id}),
                        !.dev_recipe_steps =
                            Remove(@, {i \in DOMAIN @ : @[i].recipe_id = recipe_id})]]
    IN Outcome(d, P, 1, fail, mode)

\* ------------------------------------------------------------------- Init
\* The database file before the first film stock is entered.
InitEmpty ==
    /\ conn = EmptyStore
    /\ disk = EmptyStore
    /\ today = 1
    /\ failures = 0
    /\ last = [op |-> "init", code |-> "ok", id |-> None, arg |-> NoArg]

\* The database file of a user who has entered one analog film stock
\* (FilmStockScreen.action_add, committed) and opens the rolls screen.
Stocked ==
    save_film_stock([view |-> EmptyStore, disk |-> EmptyStore], None,
                    FilmStockForm("analog", MaxFrames, MaxQty), 0, "statement").disk

Init ==
    /\ conn = Stocked
    /\ disk = Stocked
    /\ today = 1
    /\ failures = 0
    /\ last = [op |-> "init", code |-> "ok", id |-> None, arg |-> NoArg]

Db == [view |-> conn, disk |-> disk]

After(res) == [view |-> res.view, disk |-> res.disk]

\* No failure, or, while the budget lasts, a storage failure at one of the
\* n statements and commits of a handler, in either of sqlite's two ways.
Fails(n) ==
    {<<0, "statement">>}
        \cup (IF failures < MaxFailures THEN (1..n) \X FailModes ELSE {})

\* The local index of the failure for a function whose statements and commit
\* are the handler's from..to.
Local(fail, from, to) == IF fail \in from..to THEN fail - from + 1 ELSE 0

\* The handler's try/except around its database calls: app_error(code) when
\* one raised, else the refresh.  `last` keeps what the handler was called
\* with (the row it acted on, the development record and steps it was
\* given) and how it ended.
ApplyWith(res, op, code, id, arg, fail) ==
    /\ conn' = res.view
    /\ disk' = res.disk
    /\ failures' = IF fail > 0 THEN failures + 1 ELSE failures
    /\ last' = [op |-> op, code |-> IF res.raised THEN code ELSE "ok",
                id |-> id, arg |-> arg]

Apply(res, op, code, id, fail) == ApplyWith(res, op, code, id, NoArg, fail)

\* A handler that returns before any statement.
Return(op, code, id) ==
    /\ last' = [op |-> op, code |-> code, id |-> id, arg |-> NoArg]
    /\ UNCHANGED <<conn, disk, failures>>

\* A handler that returns before any statement, keeping what it was given.
ReturnWith(op, code, id, arg) ==
    /\ last' = [op |-> op, code |-> code, id |-> id, arg |-> arg]
    /\ UNCHANGED <<conn, disk, failures>>

\* date.today() moves on between two operations.
Tick ==
    /\ today < MaxDay
    /\ today' = today + 1
    /\ UNCHANGED <<conn, disk, failures, last>>

\* FilmStockScreen.action_add
FilmStockAdd ==
    /\ conn.seq.film_stocks < MaxStocks
    /\ \E media_type \in {"analog", "digital"}, fpr \in FprInputs, qty \in QtyInputs,
          f \in Fails(2) :
            /\ (media_type = "digital") => (fpr = 0 /\ qty = 0)
            /\ Apply(save_film_stock(Db, None, FilmStockForm(media_type, fpr, qty),
                                     f[1], f[2]),
                     "film_stock", DB_SAVE, conn.seq.film_stocks + 1, f[1])
    /\ UNCHANGED today

\* FilmStockScreen.action_edit
FilmStockEdit ==
    /\ \E id \in DOMAIN conn.film_stocks :
       \E media_type \in {"analog", "digital"}, fpr \in FprInputs, qty \in QtyInputs,
          f \in Fails(2) :
            /\ (media_type = "digital") => (fpr = 0 /\ qty = 0)
            /\ Apply(save_film_stock(Db, id, FilmStockForm(media_type, fpr, qty),
                                     f[1], f[2]),
                     "film_stock", DB_SAVE, id, f[1])
    /\ UNCHANGED today

\* RollsScreen.action_new_roll
ActionNewRoll ==
    /\ conn.seq.rolls < MaxRolls
    /\ \E stock_id \in StockIds :
        IF stock_id \notin DOMAIN conn.film_stocks
        THEN ReturnWith("new_roll", "return", None, [NoArg EXCEPT !.stock = stock_id])
        ELSE LET stock == conn.film_stocks[stock_id] IN
             \E f \in Fails(create_roll_statements(stock.frames_per_roll) + 1) :
                LET res == create_roll(Db, Roll(stock_id), stock.frames_per_roll,
                                       f[1], f[2])
                IN  ApplyWith(res, "new_roll", DB_SAVE, conn.seq.rolls + 1,
                              [NoArg EXCEPT !.stock = stock_id, !.roll = Roll(stock_id)],
                              f[1])
    /\ UNCHANGED today

\* create_roll called with a roll that carries a default lens (its roll.lens_id
\* argument), the stock's frames_per_roll as the New-roll handler passes it.
CreateRollWithLens ==
    /\ conn.seq.rolls < MaxRolls
    /\ \E stock_id \in DOMAIN conn.film_stocks, lens_id \in Lenses :
        LET stock == conn.film_stocks[stock_id] IN
        \E f \in Fails(create_roll_statements(stock.frames_per_roll) + 1) :
            LET res == create_roll(Db, [Roll(stock_id) EXCEPT !.lens_id = lens_id],
                                   stock.frames_per_roll, f[1], f[2])
            IN  ApplyWith(res, "create_roll", "raised", conn.seq.rolls + 1,
                          [NoArg EXCEPT !.stock = stock_id,
                                        !.roll = [Roll(stock_id) EXCEPT !.lens_id = lens_id]],
                          f[1])
    /\ UNCHANGED today

\* create_roll called with a roll whose film_stock_id is any id, in the table
\* or not, and a frame count of the caller's.
CreateRollAnyStock ==
    /\ conn.seq.rolls < MaxRolls
    /\ \E stock_id \in StockIds, frames_per_roll \in FprInputs :
        \E f \in Fails(create_roll_statements(frames_per_roll) + 1) :
            /\ (stock_id \notin DOMAIN conn.film_stocks) => f[1] = 0
            /\ ApplyWith(create_roll(Db, Roll(stock_id), frames_per_roll, f[1], f[2]),
                         "create_roll", "raised", conn.seq.rolls + 1,
                         [NoArg EXCEPT !.stock = stock_id, !.roll = Roll(stock_id)],
                         f[1])
    /\ UNCHANGED today

\* create_roll called with a Roll whose status is set by the caller:
\* TestScanRollIntegration.test_scan_action_saves_to_db.
CreateRollWithStatus ==
    /\ conn.seq.rolls < MaxRolls
    /\ \E stock_id \in DOMAIN conn.film_stocks, scan_date \in {None, today} :
        LET stock == conn.film_stocks[stock_id]
            roll == [Roll(stock_id) EXCEPT !.status = "developed",
                                           !.scan_date = scan_date]
        IN  \E f \in Fails(create_roll_statements(stock.frames_per_roll) + 1) :
                ApplyWith(create_roll(Db, roll, stock.frames_per_roll, f[1], f[2]),
                          "create_roll", "raised", conn.seq.rolls + 1,
                          [NoArg EXCEPT !.stock = stock_id, !.roll = roll], f[1])
    /\ UNCHANGED today

\* FilmStockScreen.action_delete
FilmStockDelete ==
    /\ \E stock_id \in DOMAIN conn.film_stocks :
        \/ Return("film_stock_delete", "cancel", stock_id)
        \/ \E f \in Fails(2) :
            Apply(delete_film_stock(Db, stock_id, f[1], f[2]),
                  "film_stock_delete", DB_DELETE, stock_id, f[1])
    /\ UNCHANGED today

\* The load without its date stamp.
LoadRoll_undated(d, roll_id, roll, camera_id, lens_id, day, fail, mode) ==
    LET loaded == [roll EXCEPT !.camera_id = camera_id, !.lens_id = lens_id,
                               !.status = "loaded"]
        r1 == update_roll(d, roll_id, loaded, Local(fail, 1, 2), mode)
        r2 == set_roll_frames_lens(After(r1), roll_id, lens_id, Local(fail, 3, 4), mode)
    IN IF r1.raised THEN r1 ELSE r2

\* on_result of action_load and on_load_result of action_advance_status:
\* update_roll, then set_roll_frames_lens, each with its own commit.
LoadRoll(d, roll_id, roll, camera_id, lens_id, day, fail, mode) ==
    LET loaded == [roll EXCEPT !.camera_id = camera_id, !.lens_id = lens_id,
                               !.status = "loaded", !.loaded_date = day]
        r1 == update_roll(d, roll_id, loaded, Local(fail, 1, 2), mode)
        r2 == set_roll_frames_lens(After(r1), roll_id, lens_id, Local(fail, 3, 4), mode)
    IN IF r1.raised THEN r1 ELSE r2

\* RollsScreen.action_load
ActionLoad ==
    /\ \E roll_id \in DOMAIN conn.rolls :
        LET roll == conn.rolls[roll_id] IN
        IF roll.status # "fresh"
        THEN Return("load", "return", roll_id)
        ELSE \/ Return("load", "cancel", roll_id)
             \/ \E camera_id \in Cameras, lens_id \in Lenses \cup {None}, f \in Fails(4) :
                    ApplyWith(LoadRoll(Db, roll_id, roll, camera_id, lens_id, today,
                                       f[1], f[2]),
                              "load", DB_SAVE, roll_id, [NoArg EXCEPT !.lens = lens_id],
                              f[1])
    /\ UNCHANGED today

\* The neighbour on the wrong side: ROLL_STATUSES[idx - 1].
next_status_backward(status) == ROLL_STATUSES[StatusIndex(status) - 1]

\* The status after roll.status in ROLL_STATUSES.
next_status(status) == ROLL_STATUSES[StatusIndex(status) + 1]

\* The bump without the date stamps.
Advanced_unstamped(roll, day) == [roll EXCEPT !.status = next_status(roll.status)]

\* The plain bump of action_advance_status.
Advanced(roll, day) ==
    LET bumped == [roll EXCEPT !.status = next_status(roll.status)] IN
    IF bumped.status = "finished" THEN [bumped EXCEPT !.finished_date = day]
    ELSE IF bumped.status = "developed" THEN [bumped EXCEPT !.developed_date = day]
    ELSE bumped

\* SelfDevelopModal.save: rows with a blank chemical are skipped.
RECURSIVE self_steps(_)
self_steps(rows) ==
    IF rows = <<>> THEN <<>>
    ELSE (IF Head(rows) = "" THEN <<>>
          ELSE <<DevelopmentStep(Head(rows))>>)
            \o self_steps(Tail(rows))

\* Every type is stamped as a lab hand-over.
stamped_as_lab(roll, dev_type, day) ==
    [roll EXCEPT !.status = "developing", !.sent_for_dev_date = day]

\* Every type is stamped as developed at home.
stamped_as_self(roll, dev_type, day) ==
    [roll EXCEPT !.status = "developed", !.sent_for_dev_date = day,
                 !.developed_date = day]

\* on_dev_result: the status and dates for the chosen type, from one
\* date.today().
stamped(roll, dev_type, day) ==
    IF dev_type = "self"
    THEN [roll EXCEPT !.status = "developed",
                      !.sent_for_dev_date = day,
                      !.developed_date = day]
    ELSE [roll EXCEPT !.status = "developing",
                      !.sent_for_dev_date = day]

\* on_dev_result of _start_developing_flow: save_roll_development, then the
\* status and dates, then update_roll, each call with its own commit.
DevelopRoll(d, roll_id, roll, dev, steps, day, fail, mode) ==
    LET n1 == 1 + Len(steps)
        r1 == save_roll_development(d, [dev EXCEPT !.roll_id = roll_id], steps,
                                    Local(fail, 1, n1 + 1), mode)
        r2 == update_roll(After(r1), roll_id, stamped(roll, dev.dev_type, day),
                          Local(fail, n1 + 2, n1 + 3), mode)
    IN IF r1.raised THEN [view |-> r1.view, disk |-> r1.disk, raised |-> TRUE] ELSE r2

\* The rows a user leaves in the self-development form.
StepInputs == {<<"Developer", "Fixer">>, <<"", "Fixer">>, <<"", "">>}

\* The fresh roll is bumped like any other, without the load prompt.
AdvanceFresh_bumped ==
    /\ \E roll_id \in DOMAIN conn.rolls :
        LET roll == conn.rolls[roll_id] IN
        /\ roll.status = "fresh"
        /\ \E f \in Fails(2) :
            Apply(update_roll(Db, roll_id, Advanced(roll, today), f[1], f[2]),
                  "advance", DB_SAVE, roll_id, f[1])
    /\ UNCHANGED today

\* RollsScreen.action_advance_status on a fresh roll: the load prompt.
AdvanceFresh ==
    /\ \E roll_id \in DOMAIN conn.rolls :
        LET roll == conn.rolls[roll_id] IN
        /\ roll.status = "fresh"
        /\ \/ Return("advance", "cancel", roll_id)
           \/ \E camera_id \in Cameras, lens_id \in Lenses \cup {None}, f \in Fails(4) :
                ApplyWith(LoadRoll(Db, roll_id, roll, camera_id, lens_id, today,
                                   f[1], f[2]),
                          "advance_load", DB_SAVE, roll_id,
                          [NoArg EXCEPT !.lens = lens_id], f[1])
    /\ UNCHANGED today

\* The last status is bumped like the others: it stays, the date is stamped
\* again and the roll is written.
AdvancePastEnd_restamped ==
    /\ \E roll_id \in DOMAIN conn.rolls :
        LET roll == conn.rolls[roll_id] IN
        /\ StatusIndex(roll.status) >= Len(ROLL_STATUSES)
        /\ \E f \in Fails(2) :
            Apply(update_roll(Db, roll_id, [roll EXCEPT !.developed_date = today],
                              f[1], f[2]),
                  "advance", DB_SAVE, roll_id, f[1])
    /\ UNCHANGED today

\* RollsScreen.action_advance_status on a developed roll: idx is the last.
AdvancePastEnd ==
    /\ \E roll_id \in DOMAIN conn.rolls :
        /\ StatusIndex(conn.rolls[roll_id].status) >= Len(ROLL_STATUSES)
        /\ Return("advance", "return", roll_id)
    /\ UNCHANGED today

\* RollsScreen.action_advance_status: the plain bump.
AdvanceStatus ==
    /\ \E roll_id \in DOMAIN conn.rolls :
        LET roll == conn.rolls[roll_id] IN
        /\ roll.status # "fresh"
        /\ StatusIndex(roll.status) < Len(ROLL_STATUSES)
        /\ next_status(roll.status) # "developing"
        /\ \E f \in Fails(2) :
            Apply(update_roll(Db, roll_id, Advanced(roll, today), f[1], f[2]),
                  "advance", DB_SAVE, roll_id, f[1])
    /\ UNCHANGED today

\* The places where Enter-development can be abandoned: the type modal
\* (DevelopmentTypeModal.cancel), the self form (SelfDevelopModal.cancel) and
\* the lab form (LabDevelopModal.cancel).
CancelPoints == {"develop", "develop_self_cancel", "develop_lab_cancel"}

\* A cancelled form still hands the roll over: the status and date are
\* written, without a record.
DevelopCancel_stamped ==
    /\ \E roll_id \in DOMAIN conn.rolls, point \in CancelPoints :
        LET roll == conn.rolls[roll_id] IN
        /\ roll.status = "finished"
        /\ IF point = "develop" THEN Return(point, "cancel", roll_id)
           ELSE \E f \in Fails(2) :
                    Apply(update_roll(Db, roll_id, stamped(roll, "lab", today), f[1], f[2]),
                          point, "cancel", roll_id, f[1])
    /\ UNCHANGED today

\* _start_developing_flow abandoned: on_type_chosen(None) returns, and
\* on_dev_result(None) returns after the self or the lab form was cancelled.
DevelopCancel ==
    /\ \E roll_id \in DOMAIN conn.rolls, point \in CancelPoints :
        /\ conn.rolls[roll_id].status = "finished"
        /\ Return(point, "cancel", roll_id)
    /\ UNCHANGED today

\* _start_developing_flow, self: SelfDevelopModal.save then on_dev_result.
DevelopSelf ==
    /\ \E roll_id \in DOMAIN conn.rolls :
        LET roll == conn.rolls[roll_id] IN
        /\ roll.status = "finished"
        /\ \E rows \in StepInputs, process_type \in PROCESS_TYPES :
            LET steps == self_steps(rows) IN
            IF steps = <<>>
            THEN Return("develop_self", "invalid", roll_id)
            ELSE /\ conn.seq.development_steps + Len(steps) <= MaxStepRows
                 /\ \E f \in Fails(Len(steps) + 4) :
                      LET dev == RollDevelopment("self", process_type, "") IN
                      ApplyWith(DevelopRoll(Db, roll_id, roll, dev, steps, today,
                                            f[1], f[2]),
                                "develop_self", DB_SAVE, roll_id,
                                [NoArg EXCEPT !.dev = dev, !.steps = steps], f[1])
    /\ UNCHANGED today

\* str.strip() on the inputs of the forms.
strip(input) ==
    IF input = " " THEN "" ELSE IF input = " Stop " THEN "Stop" ELSE input

\* _start_developing_flow, lab: LabDevelopModal.save then on_dev_result.
DevelopLab ==
    /\ \E roll_id \in DOMAIN conn.rolls :
        LET roll == conn.rolls[roll_id] IN
        /\ roll.status = "finished"
        /\ \E input \in LabNames \cup {"", " "} :
            LET lab_name == strip(input) IN
            IF lab_name = ""
            THEN Return("develop_lab", "invalid", roll_id)
            ELSE \E f \in Fails(4) :
                    LET dev == RollDevelopment("lab", "", lab_name) IN
                    ApplyWith(DevelopRoll(Db, roll_id, roll, dev, <<>>, today,
                                          f[1], f[2]),
                              "develop_lab", DB_SAVE, roll_id,
                              [NoArg EXCEPT !.dev = dev], f[1])
    /\ UNCHANGED today

\* Every string passes for a date.
fromisoformat_any(date_str) == TRUE

\* date.fromisoformat accepts the string.
fromisoformat(date_str) == date_str >= 1

\* A blank date stays blank.
scanned_blank_kept(roll, date_str, notes, day) ==
    [roll EXCEPT !.scan_date = date_str, !.scan_notes = notes]

\* ScanRollModal.save and on_result of action_scan_roll: a blank date is
\* today's; the date string and the notes go onto the roll.
scanned(roll, date_str, notes, day) ==
    [roll EXCEPT !.scan_date = IF date_str = None THEN day ELSE date_str,
                 !.scan_notes = notes]

\* RollsScreen.action_scan_roll
ActionScanRoll ==
    /\ \E roll_id \in DOMAIN conn.rolls :
        LET roll == conn.rolls[roll_id] IN
        IF roll.status # "developed"
        THEN Return("scan", "return", roll_id)
        ELSE \/ Return("scan", "cancel", roll_id)
             \/ \E date_str \in ScanDateInputs, notes \in ScanNotes :
                    IF date_str # None /\ ~fromisoformat(date_str)
                    THEN ReturnWith("scan", VAL_DATE, roll_id,
                                    [NoArg EXCEPT !.date = date_str, !.notes = notes])
                    ELSE \E f \in Fails(2) :
                            ApplyWith(update_roll(Db, roll_id,
                                                  scanned(roll, date_str, notes, today),
                                                  f[1], f[2]),
                                      "scan", DB_SAVE, roll_id,
                                      [NoArg EXCEPT !.date = date_str, !.notes = notes],
                                      f[1])
    /\ UNCHANGED today

\* RollsScreen.action_delete
ActionDelete ==
    /\ \E roll_id \in DOMAIN conn.rolls :
        \/ Return("delete", "cancel", roll_id)
        \/ \E f \in Fails(3) :
            Apply(delete_roll(Db, roll_id, f[1], f[2]), "delete", DB_DELETE, roll_id, f[1])
    /\ UNCHANGED today

\* The step lists handed to save_roll_development and save_dev_recipe by a
\* direct caller, each step carrying a step_order of the caller's choosing.
ApiSteps ==
    {<<>>,
     <<[DevelopmentStep("Fixer") EXCEPT !.step_order = 5]>>,
     <<[DevelopmentStep("Fixer") EXCEPT !.step_order = 5],
       [DevelopmentStep("Developer") EXCEPT !.step_order = 3]>>}

\* save_roll_development called with the record it returned before (its id
\* set) and new fields and steps: TestSaveRollDevelopmentUpdate.
SaveDevelopmentAgain ==
    /\ \E dev_id \in DOMAIN conn.roll_development :
       \E dev_type \in DEVELOPMENT_TYPES, process_type \in PROCESS_TYPES, steps \in ApiSteps :
        LET saved == conn.roll_development[dev_id]
            dev == [id |-> dev_id, roll_id |-> saved.roll_id, dev_type |-> dev_type,
                    process_type |-> process_type, lab_name |-> saved.lab_name]
        IN  /\ conn.seq.development_steps + Len(steps) <= MaxStepRows
            /\ \E f \in Fails(Len(steps) + 3) :
                ApplyWith(save_roll_development(Db, dev, steps, f[1], f[2]),
                          "save_again", "raised", saved.roll_id,
                          [NoArg EXCEPT !.dev = dev, !.steps = steps], f[1])
    /\ UNCHANGED today

\* save_roll_development called with a new record (no id) for any roll:
\* TestDevelopmentCRUD.
SaveDevelopmentNew ==
    /\ \E roll_id \in DOMAIN conn.rolls :
       \E dev_type \in DEVELOPMENT_TYPES, steps \in ApiSteps :
        LET dev == [RollDevelopment(dev_type, "", "") EXCEPT !.roll_id = roll_id]
        IN  /\ conn.seq.roll_development < MaxDevs
            /\ conn.seq.development_steps + Len(steps) <= MaxStepRows
            /\ \E f \in Fails(Len(steps) + 2) :
                ApplyWith(save_roll_development(Db, dev, steps, f[1], f[2]),
                          "save_new", "raised", roll_id,
                          [NoArg EXCEPT !.dev = dev, !.steps = steps], f[1])
    /\ UNCHANGED today

\* delete_roll_development called for a roll: TestDevelopmentCRUD.
DeleteDevelopment ==
    /\ \E roll_id \in DOMAIN conn.rolls, f \in Fails(2) :
        Apply(delete_roll_development(Db, roll_id, f[1], f[2]),
              "delete_development", "raised", roll_id, f[1])
    /\ UNCHANGED today

\* FramesScreen.action_edit_frame: FrameEditModal.save then update_frame.
ActionEditFrame ==
    /\ \E frame_id \in DOMAIN conn.frames :
        \/ Return("edit_frame", "cancel", frame_id)
        \/ \E lens_id \in Lenses \cup {None}, f \in Fails(2) :
            ApplyWith(update_frame(Db, frame_id, lens_id, f[1], f[2]),
                      "edit_frame", DB_SAVE, frame_id,
                      [NoArg EXCEPT !.lens = lens_id], f[1])
    /\ UNCHANGED today

\* set_roll_frames_lens called on its own for a roll: TestSetRollFramesLens.
SetRollFramesLens ==
    /\ \E roll_id \in DOMAIN conn.rolls, lens_id \in Lenses \cup {None}, f \in Fails(2) :
        ApplyWith(set_roll_frames_lens(Db, roll_id, lens_id, f[1], f[2]),
                  "set_lens", "raised", roll_id,
                  [NoArg EXCEPT !.lens = lens_id], f[1])
    /\ UNCHANGED today

\* The step lists handed to save_dev_recipe: those of ApiSteps, and two with
\* the contents of a step filled in: a temperature, a duration, an
\* agitation, a chemical name with blanks around it and one left at the
\* dataclass default.
RecipeSteps ==
    ApiSteps \cup
    {<<[DevelopmentStep("Developer") EXCEPT
            !.temperature = "20C", !.duration_seconds = Seconds(0), !.agitation = "30s"],
       [DevelopmentStep("") EXCEPT !.duration_seconds = Seconds(61)],
       [DevelopmentStep(" Stop ") EXCEPT
            !.temperature = " ", !.duration_seconds = Seconds(0 - 1)]>>,
     <<DevelopmentStep(" ")>>}

\* save_dev_recipe called with a new recipe (no id): TestDevRecipeCRUD.
SaveRecipeNew ==
    /\ conn.seq.dev_recipes < MaxRecipes
    /\ \E process_type \in PROCESS_TYPES, steps \in RecipeSteps :
        /\ conn.seq.dev_recipe_steps + Len(steps) <= MaxRecipeStepRows
        /\ \E f \in Fails(Len(steps) + 2) :
            ApplyWith(save_dev_recipe(Db, DevRecipe(process_type), steps, f[1], f[2]),
                      "recipe_new", "raised", conn.seq.dev_recipes + 1,
                      [NoArg EXCEPT !.dev.process_type = process_type, !.steps = steps],
                      f[1])
    /\ UNCHANGED today

\* save_dev_recipe called with a stored recipe's id and new fields and steps:
\* test_update_recipe, test_update_recipe_replaces_steps.
SaveRecipeAgain ==
    /\ \E recipe_id \in DOMAIN conn.dev_recipes :
       \E process_type \in PROCESS_TYPES, steps \in RecipeSteps :
        /\ conn.seq.dev_recipe_steps + Len(steps) <= MaxRecipeStepRows
        /\ \E f \in Fails(Len(steps) + 3) :
            ApplyWith(save_dev_recipe(Db, [DevRecipe(process_type) EXCEPT !.id = recipe_id],
                                      steps, f[1], f[2]),
                      "recipe_again", "raised", recipe_id,
                      [NoArg EXCEPT !.dev.process_type = process_type, !.steps = steps],
                      f[1])
    /\ UNCHANGED today

\* delete_dev_recipe called for a stored recipe: test_delete_recipe.
DeleteRecipe ==
    /\ \E recipe_id \in DOMAIN conn.dev_recipes, f \in Fails(2) :
        Apply(delete_dev_recipe(Db, recipe_id, f[1], f[2]),
              "recipe_delete", "raised", recipe_id, f[1])
    /\ UNCHANGED today

\* The chemical names SelfDevelopModal.load_recipe writes into the form rows.
RECURSIVE recipe_rows(_)
recipe_rows(steps) ==
    IF steps = <<>> THEN <<>>
    ELSE <<Head(steps).chemical_name>> \o recipe_rows(Tail(steps))

\* The text of a duration input: <<>> is "", <<n>> is the plain number "n",
\* <<m, s>> is "m:ss".
\* _parse_duration: "" is None; with a colon, minutes * 60 + seconds; else
\* the plain number.
_parse_duration(raw) ==
    IF Len(raw) = 0 THEN NoSeconds
    ELSE IF Len(raw) = 2 THEN Seconds(raw[1] * 60 + raw[2])
    ELSE Seconds(raw[1])

\* The test is `if not seconds`: zero seconds is formatted like None.
_format_duration_falsy(seconds) ==
    IF seconds = NoSeconds \/ seconds = Seconds(0) THEN <<>>
    ELSE <<seconds[1] \div 60, seconds[1] % 60>>

\* _format_duration: None is ""; else f"{seconds // 60}:{seconds % 60:02d}".
_format_duration(seconds) ==
    IF seconds = NoSeconds THEN <<>>
    ELSE <<seconds[1] \div 60, seconds[1] % 60>>

\* One row of inputs of the self-development form, as _add_step_row mounts it.
StepRow == [chemical |-> "", temp |-> "", duration |-> <<>>, agitation |-> ""]

\* SelfDevelopModal._add_step_row: the new row takes the id step_count.
_add_step_row(form) ==
    [form EXCEPT !.rows = @ @@ (form.step_count :> StepRow), !.step_count = @ + 1]

\* SelfDevelopModal after compose and on_mount: one empty row, B&W selected.
SelfDevelopModal ==
    _add_step_row([step_count |-> 0, rows |-> <<>>, process |-> "B&W"])

\* The user types chemical names into the form, one row each, pressing
\* "+ Add Step" for every row after the first.
RECURSIVE typed(_, _)
typed(form, names) ==
    IF names = <<>> THEN form
    ELSE LET idx == form.step_count - 1
             filled == [form EXCEPT !.rows[idx].chemical = Head(names)]
         IN IF Tail(names) = <<>> THEN filled
            ELSE typed(_add_step_row(filled), Tail(names))

\* The loop of load_recipe's on_result: a new row per recipe step, filled
\* from the step.
RECURSIVE fill(_, _)
fill(form, steps) ==
    IF steps = <<>> THEN form
    ELSE LET added == _add_step_row(form)
             idx == added.step_count - 1
             step == Head(steps)
         IN fill([added EXCEPT !.rows[idx] =
                    [chemical |-> step.chemical_name,
                     temp |-> step.temperature,
                     duration |-> _format_duration(step.duration_seconds),
                     agitation |-> step.agitation]],
                 Tail(steps))

\* The recipe's rows are mounted after the rows already in the form.
load_recipe_appending(form, process_type, steps) ==
    fill([form EXCEPT !.process = process_type], steps)

\* on_result of SelfDevelopModal.load_recipe: the process type is the
\* recipe's, remove_children() empties the rows (the counter keeps counting),
\* then one row per recipe step.
load_recipe(form, process_type, steps) ==
    fill([form EXCEPT !.process = process_type, !.rows = <<>>], steps)

\* SelfDevelopModal.save, the loop over range(_step_count): a row that is no
\* longer mounted or whose chemical is blank is skipped; the inputs are
\* stripped and the duration parsed.
RECURSIVE form_steps(_, _)
form_steps(form, i) ==
    IF i >= form.step_count THEN <<>>
    ELSE (IF i \notin DOMAIN form.rows \/ strip(form.rows[i].chemical) = ""
          THEN <<>>
          ELSE <<[DevelopmentStep(strip(form.rows[i].chemical)) EXCEPT
                    !.temperature = strip(form.rows[i].temp),
                    !.duration_seconds = _parse_duration(form.rows[i].duration),
                    !.agitation = strip(form.rows[i].agitation)]>>)
            \o form_steps(form, i + 1)

\* _start_developing_flow, self, with SelfDevelopModal.load_recipe used to
\* fill the form from a stored recipe before SelfDevelopModal.save: the user
\* may have typed rows, and may have loaded a recipe, before the load.
DevelopFromRecipe ==
    /\ \E roll_id \in DOMAIN conn.rolls, recipe_id \in DOMAIN conn.dev_recipes,
          names \in StepInputs, earlier \in DOMAIN conn.dev_recipes \cup {None} :
        LET roll == conn.rolls[roll_id]
            form0 == typed(SelfDevelopModal, names)
            form1 == IF earlier = None THEN form0
                     ELSE load_recipe(form0, conn.dev_recipes[earlier].process_type,
                                      get_dev_recipe_steps(conn, earlier))
            form2 == load_recipe(form1, conn.dev_recipes[recipe_id].process_type,
                                 get_dev_recipe_steps(conn, recipe_id))
            steps == form_steps(form2, 0)
            dev == RollDevelopment("self", form2.process, "")
        IN  /\ roll.status = "finished"
            /\ IF steps = <<>>
               THEN ReturnWith("develop_recipe", "invalid", roll_id,
                               [NoArg EXCEPT !.recipe = recipe_id])
               ELSE /\ conn.seq.development_steps + Len(steps) <= MaxStepRows
                    /\ \E f \in Fails(Len(steps) + 4) :
                        ApplyWith(DevelopRoll(Db, roll_id, roll, dev, steps, today,
                                              f[1], f[2]),
                                  "develop_recipe", DB_SAVE, roll_id,
                                  [NoArg EXCEPT !.dev = dev, !.steps = steps,
                                                !.recipe = recipe_id], f[1])
    /\ UNCHANGED today

\* The roll lifecycle, driven from the rolls screen.
Next ==
    \/ Tick
    \/ (Cardinality(DOMAIN conn.rolls) < MaxLive /\ ActionNewRoll)
    \/ ActionLoad
    \/ AdvanceFresh
    \/ AdvanceStatus
    \/ AdvancePastEnd
    \/ DevelopCancel
    \/ DevelopSelf
    \/ DevelopLab
    \/ ActionScanRoll
    \/ ActionDelete

Spec == Init /\ [][Next]_vars

\* The film-stock ledger: the film-stock screen, roll creation and deletion.
NextLedger ==
    \/ FilmStockAdd
    \/ FilmStockEdit
    \/ ActionNewRoll
    \/ CreateRollWithLens
    \/ ActionDelete

SpecLedger == InitEmpty /\ [][NextLedger]_vars

\* Film stocks entered and deleted beside rolls created from them, from the
\* rolls screen and by a direct caller of create_roll, and deleted.
NextStocks ==
    \/ FilmStockAdd
    \/ FilmStockDelete
    \/ ActionNewRoll
    \/ CreateRollAnyStock
    \/ CreateRollWithStatus
    \/ ActionDelete

SpecStocks == InitEmpty /\ [][NextStocks]_vars

\* The development record manager under its direct callers
\* (db.save_roll_development, db.delete_roll_development) on rolls that are
\* created and deleted from the rolls screen.
NextApi ==
    \/ (Cardinality(DOMAIN conn.rolls) < MaxLive /\ ActionNewRoll)
    \/ ActionDelete
    \/ SaveDevelopmentAgain
    \/ SaveDevelopmentNew
    \/ DeleteDevelopment

SpecApi == Init /\ [][NextApi]_vars

\* Two rolls side by side on one day, each taken through its lifecycle and
\* deleted from whatever status it is in.
NextDelete ==
    \/ ActionNewRoll
    \/ ActionLoad
    \/ AdvanceStatus
    \/ DevelopSelf
    \/ DevelopLab
    \/ ActionDelete

SpecDelete == Init /\ [][NextDelete]_vars

\* The frames of two rolls: created with the rolls, edited one by one, given
\* a lens by Load and by set_roll_frames_lens, beside edits of the film stock
\* and deletions of the rolls.
NextFrames ==
    \/ ActionNewRoll
    \/ ActionLoad
    \/ ActionEditFrame
    \/ SetRollFramesLens
    \/ FilmStockEdit
    \/ ActionDelete

SpecFrames == Init /\ [][NextFrames]_vars

\* The database file of a user who has created a roll from the stock, loaded
\* it and advanced it to finished, every step committed.
FinishedRoll ==
    LET created == create_roll([view |-> Stocked, disk |-> Stocked], Roll(1),
                               MaxFrames, 0, "statement")
        loaded == LoadRoll(After(created), created.id, created.view.rolls[created.id],
                           1, None, 1, 0, "statement")
        shooting == update_roll(After(loaded), created.id,
                                Advanced(loaded.view.rolls[created.id], 1), 0, "statement")
        finished == update_roll(After(shooting), created.id,
                                Advanced(shooting.view.rolls[created.id], 1), 0, "statement")
    IN finished.disk

InitRecipes ==
    /\ conn = FinishedRoll
    /\ disk = FinishedRoll
    /\ today = 1
    /\ failures = 0
    /\ last = [op |-> "init", code |-> "ok", id |-> None, arg |-> NoArg]

\* Recipes beside one roll's development: recipes saved, re-saved and deleted
\* by their direct callers; the finished roll developed from a recipe, its
\* record re-saved and deleted, and the roll deleted.
NextRecipes ==
    \/ SaveRecipeNew
    \/ SaveRecipeAgain
    \/ DeleteRecipe
    \/ DevelopFromRecipe
    \/ SaveDevelopmentAgain
    \/ DeleteDevelopment
    \/ ActionDelete

SpecRecipes == InitRecipes /\ [][NextRecipes]_vars

\* ------------------------------------------------------------------ claims
Statuses == {ROLL_STATUSES[i] : i \in 1..Len(ROLL_STATUSES)}

StatusesKnown(v) == \A r \in DOMAIN v.rolls : v.rolls[r].status \in Statuses

\* Every roll of both stores whose status differs between v and w is at a
\* strictly later status in w.
StatusMovesForward(v, w) ==
    \A r \in DOMAIN v.rolls \cap DOMAIN w.rolls :
        v.rolls[r].status # w.rolls[r].status
            => StatusIndex(w.rolls[r].status) > StatusIndex(v.rolls[r].status)

\* C1: over Create, Load, Advance, Enter-development, Lab return, Scan and
\* Delete a roll's status is always one of ROLL_STATUSES, and every change of
\* it, committed or made on the connection by an operation, is to a strictly
\* later status.
C1_StatusOnlyMovesForward ==
    [][/\ StatusesKnown(conn') /\ StatusesKnown(disk')
       /\ StatusMovesForward(disk, disk')
       /\ (failures' = failures => StatusMovesForward(conn, conn'))]_vars

\* A committed roll has been taken through the whole sequence.
C1_Witness ==
    \E r \in DOMAIN disk.rolls :
        /\ disk.rolls[r].status = "developed"
        /\ disk.rolls[r].loaded_date # None
        /\ disk.rolls[r].finished_date # None

\* The step into this state was the handler `op` on row `id`, and it ended
\* without raising.
Did(op, id) == last.op = op /\ last.code = "ok" /\ last.id = id

\* This step is the handler `op` on row `id`, ending without raising.
Does(op, id) ==
    today' = today /\ last'.op = op /\ last'.code = "ok" /\ last'.id = id

FramesOf(v, r) == {i \in DOMAIN v.frames : v.frames[i].roll_id = r}

Names(steps) == [i \in 1..Len(steps) |-> steps[i].chemical_name]

\* This step is a Create of roll r that ended without raising, from the
\* New-roll handler or from a direct caller.
Creates(r) == Does("new_roll", r) \/ Does("create_roll", r)

Created(r) == Did("new_roll", r) \/ Did("create_roll", r)

\* C2: Create is all-or-nothing: a roll and its frames enter the committed
\* store only in the step of the Create that made them and ended without an
\* error, so what a failed Create wrote is in no later committed state.
C2_CreateAllOrNothing ==
    [][/\ \A r \in DOMAIN disk'.rolls \ DOMAIN disk.rolls : Creates(r)
       /\ \A f \in DOMAIN disk'.frames \ DOMAIN disk.frames :
            Creates(disk'.frames[f].roll_id)]_vars

\* C3: Enter-development is all-or-nothing: no committed roll has a
\* RollDevelopment while still finished with sent_for_dev_date unset, and none
\* is developing or developed without one.
C3_EnterDevelopmentAtomic ==
    \A r \in DOMAIN disk.rolls :
        LET roll == disk.rolls[r]
            has == get_roll_development_by_roll(disk, r) # {}
        IN  /\ has => ~(roll.status = "finished" /\ roll.sent_for_dev_date = None)
            /\ roll.status \in {"developing", "developed"} => has

AtMostOnePerRoll(v) ==
    \A i, j \in DOMAIN v.roll_development :
        v.roll_development[i].roll_id = v.roll_development[j].roll_id => i = j

\* C4: after any saves, re-saves, failed saves and deletes each roll has at
\* most one RollDevelopment, on the connection and committed.
C4_AtMostOneDevelopmentPerRoll == AtMostOnePerRoll(conn) /\ AtMostOnePerRoll(disk)

\* A second insert for a roll that has a record was refused by the constraint.
C4_Witness ==
    /\ last.op = "save_new" /\ last.code = "raised" /\ failures = 0
    /\ get_roll_development_by_roll(conn, last.id) # {}

\* C5: no film stock's quantity_on_hand is ever below 0.
C5_QuantityNeverNegative ==
    \A s \in DOMAIN disk.film_stocks : disk.film_stocks[s].quantity_on_hand >= 0

\* C6: a Create that ends without error from a stock of frames_per_roll N > 0
\* leaves the new roll with exactly N frames numbered 1..N, each with the
\* roll's lens; with N = 0 the roll exists and has no frame.
C6_CreateMakesFrames ==
    [][\A r \in DOMAIN conn'.rolls \ DOMAIN conn.rolls :
        Creates(r) =>
            LET roll == conn'.rolls[r]
                N == conn.film_stocks[roll.film_stock_id].frames_per_roll
                fs == FramesOf(conn', r)
            IN  /\ Cardinality(fs) = N
                /\ {conn'.frames[f].frame_number : f \in fs} = 1..N
                /\ \A f \in fs : conn'.frames[f].lens_id = roll.lens_id
                /\ FramesOf(disk', r) = fs]_vars

\* A roll of a stock without frames and one with MaxFrames frames were made.
C6_Witness ==
    /\ \E r \in DOMAIN conn.rolls :
        /\ Created(r) /\ Cardinality(FramesOf(conn, r)) = MaxFrames
        /\ conn.rolls[r].lens_id \in Lenses
    /\ \E r \in DOMAIN conn.rolls :
        /\ conn.film_stocks[conn.rolls[r].film_stock_id].frames_per_roll = 0
        /\ FramesOf(conn, r) = {}

\* C7: a Create that ends without error from a stock of quantity q leaves it
\* at q - 1 if q >= 1 and at 0 otherwise, and every other stock as it was;
\* and a Create is refused only by a storage failure, whatever q is.
C7_CreateDecrementsQuantity ==
    [][/\ \A r \in DOMAIN conn'.rolls \ DOMAIN conn.rolls :
            Creates(r) =>
                \A s \in DOMAIN conn.film_stocks :
                    LET q == conn.film_stocks[s].quantity_on_hand IN
                    conn'.film_stocks[s].quantity_on_hand =
                        IF s # conn'.rolls[r].film_stock_id THEN q
                        ELSE IF q >= 1 THEN q - 1 ELSE 0
       /\ (last'.op \in {"new_roll", "create_roll"} /\ today' = today /\ failures' = failures
             /\ last'.id \in DOMAIN conn.film_stocks \cup {None})
            => last'.code \in {"ok", "return"}]_vars

\* Two rolls were made from one stock, the second from quantity 0.
C7_Witness ==
    \E r1, r2 \in DOMAIN conn.rolls :
        /\ r1 < r2 /\ Created(r2)
        /\ conn.rolls[r1].film_stock_id = conn.rolls[r2].film_stock_id
        /\ conn.film_stocks[conn.rolls[r2].film_stock_id].quantity_on_hand = 0
        /\ DOMAIN conn.film_stocks = StockIds

NoSelfRollDeveloping(v) ==
    \A i \in DOMAIN v.roll_development :
        (v.roll_development[i].dev_type = "self"
            /\ v.roll_development[i].roll_id \in DOMAIN v.rolls)
        => v.rolls[v.roll_development[i].roll_id].status # "developing"

Recorded(v, r, arg) ==
    LET devs == get_roll_development_by_roll(v, r) IN
    /\ Cardinality(devs) = 1
    /\ \A i \in devs :
        /\ v.roll_development[i].dev_type = arg.dev.dev_type
        /\ v.roll_development[i].process_type = arg.dev.process_type
        /\ v.roll_development[i].lab_name = arg.dev.lab_name
        /\ get_development_steps(v, i) = Names(arg.steps)
        /\ \A x \in DOMAIN v.development_steps :
            v.development_steps[x].development_id = i =>
                v.development_steps[x].step_order \in 0..(Len(arg.steps) - 1)

\* C8: Enter-development with type self that ends without error leaves the
\* finished roll developed, with sent_for_dev_date and developed_date both the
\* current date, and exactly one RollDevelopment of type self with the
\* supplied steps; a roll with a self record is never in developing.
C8_SelfDevelopment ==
    [][/\ \A r \in DOMAIN conn.rolls :
            (conn.rolls[r].status = "finished"
                /\ Does("develop_self", r)) =>
                /\ conn'.rolls[r].status = "developed"
                /\ conn'.rolls[r].sent_for_dev_date = today
                /\ conn'.rolls[r].developed_date = today
                /\ last'.arg.dev.dev_type = "self"
                /\ Recorded(conn', r, last'.arg)
                /\ disk' = conn'
       /\ NoSelfRollDeveloping(conn') /\ NoSelfRollDeveloping(disk')]_vars

\* A self-development with two steps was completed.
C8_Witness ==
    \E r \in DOMAIN disk.rolls :
        /\ Did("develop_self", r)
        /\ disk.rolls[r].status = "developed"
        /\ Len(last.arg.steps) = 2

\* C9: Enter-development with type lab that ends without error leaves the
\* finished roll developing, with sent_for_dev_date the current date, no
\* developed_date, and exactly one RollDevelopment of type lab without steps;
\* developed_date of a roll becomes set only by a self-development or by
\* Advance from developing.
C9_LabDevelopment ==
    [][/\ \A r \in DOMAIN conn.rolls :
            (conn.rolls[r].status = "finished"
                /\ Does("develop_lab", r)) =>
                /\ conn'.rolls[r].status = "developing"
                /\ conn'.rolls[r].sent_for_dev_date = today
                /\ conn'.rolls[r].developed_date = None
                /\ last'.arg.dev.dev_type = "lab"
                /\ last'.arg.steps = <<>>
                /\ Recorded(conn', r, last'.arg)
                /\ disk' = conn'
       /\ \A r \in DOMAIN conn.rolls \cap DOMAIN conn'.rolls :
            (conn.rolls[r].developed_date = None /\ conn'.rolls[r].developed_date # None)
            => \/ last'.op = "develop_self"
               \/ last'.op = "advance" /\ conn.rolls[r].status = "developing"]_vars

\* A lab roll came back: it was developing and Advance made it developed.
C9_Witness ==
    \E r \in DOMAIN disk.rolls :
        /\ Did("advance", r)
        /\ disk.rolls[r].status = "developed"
        /\ \E i \in get_roll_development_by_roll(disk, r) :
            disk.roll_development[i].dev_type = "lab"

\* C10: save_roll_development called again for a roll that has a record, and
\* ending without error, leaves one record for the roll with the second call's
\* fields and exactly the second call's steps: none of the rows stored for it
\* before remains.
C10_SaveAgainReplaces ==
    [][\A r \in DOMAIN conn.rolls :
        (Does("save_again", r)) =>
            /\ Recorded(conn', r, last'.arg)
            /\ \A x \in DOMAIN conn.development_steps \cap DOMAIN conn'.development_steps :
                conn.development_steps[x].development_id # last'.arg.dev.id
            /\ \A x \in DOMAIN conn'.development_steps :
                conn'.development_steps[x].development_id = last'.arg.dev.id
                    => x > conn.seq.development_steps
            /\ disk' = conn']_vars

\* A record saved with steps was saved again with an empty list.
C10_Witness ==
    /\ \E r \in DOMAIN conn.rolls : Did("save_again", r)
    /\ last.arg.steps = <<>>
    /\ last.arg.dev.process_type = "C-41"
    /\ conn.seq.development_steps > 0
    /\ DOMAIN conn.development_steps = {}

\* C11: a save without an id for a roll that already has a RollDevelopment
\* raises, and leaves every RollDevelopment row and every step row as it was,
\* on the connection and committed: the original record and its steps are
\* unchanged and no step of the rejected save exists.
C11_SecondInsertRaises ==
    [][(today' = today /\ last'.op = "save_new"
            /\ get_roll_development_by_roll(conn, last'.id) # {}) =>
        /\ last'.code = "raised"
        /\ conn'.roll_development = conn.roll_development
        /\ conn'.development_steps = conn.development_steps
        /\ disk'.roll_development = disk.roll_development
        /\ disk'.development_steps = disk.development_steps]_vars

\* A save with steps was refused for a roll whose record has other steps.
C11_Witness ==
    /\ last.op = "save_new" /\ last.code = "raised"
    /\ Len(last.arg.steps) = 2
    /\ \E i \in get_roll_development_by_roll(disk, last.id) :
        get_development_steps(disk, i) = <<"Fixer">>

StepsOf(v, devs) ==
    {x \in DOMAIN v.development_steps : v.development_steps[x].development_id \in devs}

\* C12: a delete of a roll that ends without error, whatever the roll's
\* status, removes exactly the roll's row, its frames, its RollDevelopment and
\* that record's steps: every other row of these tables stays as it was, and
\* so does every film stock, quantity_on_hand included.
C12_DeleteRemovesRoll ==
    [][\A r \in DOMAIN conn.rolls :
        Does("delete", r) =>
            LET devs == get_roll_development_by_roll(conn, r) IN
            /\ conn'.rolls = Remove(conn.rolls, {r})
            /\ conn'.frames = Remove(conn.frames, FramesOf(conn, r))
            /\ conn'.roll_development = Remove(conn.roll_development, devs)
            /\ conn'.development_steps =
                    Remove(conn.development_steps, StepsOf(conn, devs))
            /\ conn'.film_stocks = conn.film_stocks
            /\ disk' = conn']_vars

\* A roll with a development record and steps was deleted beside another
\* roll that keeps its frames, its record and its steps.
C12_Witness ==
    /\ last.op = "delete" /\ last.code = "ok" /\ failures = 0
    /\ conn.seq.roll_development = 2
    /\ Cardinality(DOMAIN conn.roll_development) = 1
    /\ conn.seq.development_steps = 4
    /\ Cardinality(DOMAIN conn.development_steps) = 2
    /\ \E r \in DOMAIN conn.rolls :
        /\ FramesOf(conn, r) # {}
        /\ get_roll_development_by_roll(conn, r) # {}

\* C13: Advance on a fresh roll writes nothing: the step leaves the store as
\* it was, on the connection and committed; and a roll seen as fresh on the
\* connection stops being fresh only in a Load step (from the Load handler or
\* from the load form the Advance prompt offers), which makes it loaded with
\* today's loaded_date.
C13_AdvanceFreshIsNoOp ==
    [][\A r \in DOMAIN conn.rolls :
        conn.rolls[r].status = "fresh" =>
            /\ (today' = today /\ last'.op = "advance" /\ last'.id = r)
                    => (conn' = conn /\ disk' = disk)
            /\ (r \in DOMAIN conn'.rolls /\ conn'.rolls[r].status # "fresh")
                    => /\ last'.op \in {"load", "advance_load"}
                       /\ last'.id = r
                       /\ conn'.rolls[r].status = "loaded"
                       /\ conn'.rolls[r].loaded_date = today
                       /\ conn'.rolls[r].finished_date = None]_vars

\* Advance was invoked on a fresh roll, the prompt declined, and the roll is
\* still fresh with no date.
C13_Witness ==
    /\ last.op = "advance" /\ last.code = "cancel"
    /\ last.id \in DOMAIN disk.rolls
    /\ disk.rolls[last.id] = Roll(disk.rolls[last.id].film_stock_id)

AllFramesLens(v, r, lens_id) == \A f \in FramesOf(v, r) : v.frames[f].lens_id = lens_id

\* C14: a set_roll_frames_lens(roll, L) that ends without error, called on its
\* own or as the last call of Load, leaves every frame of the roll with lens
\* L, whatever lens each frame had before, and leaves the roll's frame set as
\* it was; with L = None every frame of the roll is without a lens, also right
\* after a set_roll_frames_lens with a lens.
C14_SetRollFramesLens ==
    [][\A r \in DOMAIN conn.rolls :
        (Does("set_lens", r) \/ Does("load", r)) =>
            /\ AllFramesLens(conn', r, last'.arg.lens)
            /\ AllFramesLens(disk', r, last'.arg.lens)
            /\ FramesOf(conn', r) = FramesOf(conn, r)
            /\ (last'.arg.lens = None /\ last.op = "set_lens" /\ last.id = r)
                    => \A f \in FramesOf(conn', r) : conn'.frames[f].lens_id = None]_vars

\* The lens of all frames of a roll was cleared while a frame of the other
\* roll keeps its lens.
C14_Witness ==
    /\ last.op = "set_lens" /\ last.code = "ok" /\ last.arg.lens = None
    /\ Cardinality(FramesOf(conn, last.id)) = MaxFrames
    /\ AllFramesLens(conn, last.id, None)
    /\ \E f \in DOMAIN conn.frames : conn.frames[f].lens_id \in Lenses

\* C15: Load is all-or-nothing: on the rolls screen, where frames get a lens
\* only from their roll, no committed roll carries a lens that its committed
\* frames do not carry (a loaded roll whose frames still have their pre-load
\* lens).
C15_LoadAllOrNothing ==
    \A r \in DOMAIN disk.rolls : AllFramesLens(disk, r, disk.rolls[r].lens_id)

RecipeStepsOf(v, recipe_id) ==
    {x \in DOMAIN v.dev_recipe_steps : v.dev_recipe_steps[x].recipe_id = recipe_id}

\* The rows `ids` of a step table are the supplied list, numbered from 0 in
\* the list's order.
Renumbered(tbl, ids, steps) ==
    /\ Cardinality(ids) = Len(steps)
    /\ \A k \in 1..Len(steps) :
        \E x \in ids : /\ tbl[x].step_order = k - 1
                       /\ tbl[x].chemical_name = steps[k].chemical_name

\* Every record's and every recipe's rows carry the step_order values
\* 0..n-1, each once.
DenseOrders(v) ==
    /\ \A i \in DOMAIN v.roll_development :
        \A k \in 0..(Cardinality(StepsOf(v, {i})) - 1) :
            \E x \in StepsOf(v, {i}) : v.development_steps[x].step_order = k
    /\ \A i \in DOMAIN v.dev_recipes :
        \A k \in 0..(Cardinality(RecipeStepsOf(v, i)) - 1) :
            \E x \in RecipeStepsOf(v, i) : v.dev_recipe_steps[x].step_order = k

\* C16: after every save of a development record (first save or re-save) and
\* of a recipe that ends without error, the stored steps of that record are
\* the supplied list with step_order 0..n-1 in the list's order, whatever
\* step_order the supplied steps carried and whatever was saved before; and
\* the committed step_order values of every record and recipe are always
\* 0..n-1.
C16_StepOrderDense ==
    [][/\ \A r \in DOMAIN conn.rolls :
            (Does("develop_recipe", r) \/ Does("save_again", r)) =>
                \A i \in get_roll_development_by_roll(conn', r) :
                    Renumbered(conn'.development_steps, StepsOf(conn', {i}),
                               last'.arg.steps)
       /\ \A i \in DOMAIN conn'.dev_recipes :
            (Does("recipe_new", i) \/ Does("recipe_again", i)) =>
                Renumbered(conn'.dev_recipe_steps, RecipeStepsOf(conn', i),
                           last'.arg.steps)
       /\ DenseOrders(disk')]_vars

\* A recipe was re-saved with two steps that carry step_order 5 and 3, after
\* earlier saves, beside a development record with two steps.
C16_Witness ==
    /\ last.op = "recipe_again" /\ last.code = "ok"
    /\ Len(last.arg.steps) = 2 /\ last.arg.steps[1].step_order = 5
    /\ conn.seq.dev_recipe_steps = MaxRecipeStepRows
    /\ \E i \in DOMAIN conn.roll_development : Cardinality(StepsOf(conn, {i})) = 2

\* C17: a roll enters the committed store with as many frames as its film
\* stock's frames_per_roll; while the roll is there its frame rows are the
\* same rows, each with the same frame_number and owning roll, whatever is
\* edited (frames, Load, the whole roll's lens, the film stock); and the frame
\* numbers of a roll are always distinct.
C17_FrameSetFixed ==
    [][/\ \A r \in DOMAIN disk'.rolls \ DOMAIN disk.rolls :
            Cardinality(FramesOf(disk', r)) =
                frame_count(disk'.film_stocks[disk'.rolls[r].film_stock_id].frames_per_roll)
       /\ \A r \in DOMAIN disk.rolls \cap DOMAIN disk'.rolls :
            FramesOf(disk', r) = FramesOf(disk, r)
       /\ \A f \in DOMAIN disk.frames \cap DOMAIN disk'.frames :
            /\ disk'.frames[f].frame_number = disk.frames[f].frame_number
            /\ disk'.frames[f].roll_id = disk.frames[f].roll_id
       /\ \A f, g \in DOMAIN disk'.frames :
            (disk'.frames[f].roll_id = disk'.frames[g].roll_id
                /\ disk'.frames[f].frame_number = disk'.frames[g].frame_number)
            => f = g]_vars

\* C18: a Scan that ends without error is on a developed roll and changes
\* nothing in the store but that roll's scan_date (the entered date, today's
\* when left blank) and scan_notes: status, the other fields, frames,
\* development record and film stock stay; Scan invoked on a roll in any other
\* status returns without a write.
C18_ScanOnlyWhenDeveloped ==
    [][\A r \in DOMAIN conn.rolls :
        /\ Does("scan", r) =>
            /\ conn.rolls[r].status = "developed"
            /\ conn' = [conn EXCEPT !.rolls[r] =
                          [@ EXCEPT !.scan_date = IF last'.arg.date = None THEN today
                                                  ELSE last'.arg.date,
                                    !.scan_notes = last'.arg.notes]]
            /\ conn'.rolls[r].status = "developed"
            /\ disk' = conn'
        /\ (today' = today /\ last'.op = "scan" /\ last'.id = r
                /\ conn.rolls[r].status # "developed")
            => (last'.code = "return" /\ conn' = conn /\ disk' = disk)]_vars

\* A roll developed on one day was scanned on the next with the date left
\* blank.
C18_Witness ==
    \E r \in DOMAIN disk.rolls :
        /\ Did("scan", r) /\ last.arg.date = None /\ last.arg.notes # ""
        /\ disk.rolls[r].status = "developed"
        /\ disk.rolls[r].developed_date = 1
        /\ disk.rolls[r].scan_date = MaxDay
        /\ disk.rolls[r].scan_notes = last.arg.notes

\* C19: a scan date that is not a date, a blank lab name and a
\* self-development form without a named step are rejected without a write:
\* the step leaves the connection's view and the committed store as they
\* were, and the roll stays in the status the operation starts from, so the
\* operation can be invoked again.
C19_ValidationWritesNothing ==
    [][(/\ today' = today
        /\ \/ last'.op = "scan" /\ last'.arg.date \notin Days \cup {None}
           \/ last'.op = "develop_lab" /\ last'.arg.dev.lab_name = ""
           \/ last'.op = "develop_self" /\ last'.arg.steps = <<>>)
        => /\ conn' = conn /\ disk' = disk /\ failures' = failures
           /\ last'.code \in {"invalid", VAL_DATE}
           /\ last'.id \in DOMAIN conn'.rolls
           /\ conn'.rolls[last'.id].status =
                IF last'.op = "scan" THEN "developed" ELSE "finished"]_vars

\* A scan date that is not a date was refused for a developed roll that has
\* no scan date.
C19_Witness ==
    /\ last.op = "scan" /\ last.code = VAL_DATE /\ last.arg.date \notin Days \cup {None}
    /\ last.id \in DOMAIN disk.rolls
    /\ disk.rolls[last.id].status = "developed"
    /\ disk.rolls[last.id].scan_date = None

RecipeNames(v, recipe_id) == recipe_rows(get_dev_recipe_steps(v, recipe_id))

\* What a step holds apart from its place: chemical name, temperature,
\* duration and agitation.
Content(step) ==
    [chemical_name |-> step.chemical_name, temperature |-> step.temperature,
     duration_seconds |-> step.duration_seconds, agitation |-> step.agitation]

Contents(steps) == [i \in 1..Len(steps) |-> Content(steps[i])]

\* The steps of a list whose chemical name is not blank, in the list's
\* order, their texts without the blanks around them.
Copied(steps) ==
    LET kept == SelectSeq(steps, LAMBDA step : strip(step.chemical_name) # "")
    IN [i \in 1..Len(kept) |->
            [chemical_name |-> strip(kept[i].chemical_name),
             temperature |-> strip(kept[i].temperature),
             duration_seconds |-> kept[i].duration_seconds,
             agitation |-> strip(kept[i].agitation)]]

\* The stored steps of a development record in step_order, as contents.
StoredContents(v, development_id) ==
    LET ids == {i \in DOMAIN v.development_steps :
                    v.development_steps[i].development_id = development_id}
    IN [k \in 1..Cardinality(ids) |->
            Content(v.development_steps[
                CHOOSE i \in ids : v.development_steps[i].step_order = k - 1])]

\* C20: a development made from a recipe copies the recipe's process type and
\* the names of its steps (those that are not blank) into rows of its own; afterwards a recipe save, re-save or
\* delete that ends without error leaves every RollDevelopment and
\* DevelopmentStep on the connection as it was, and a development save,
\* re-save or delete, or a roll delete, that ends without error leaves every
\* recipe and recipe step as it was.
C20_RecipesShareNoRows ==
    [][/\ \A i \in DOMAIN conn.dev_recipes \cup DOMAIN conn'.dev_recipes :
            (Does("recipe_new", i) \/ Does("recipe_again", i) \/ Does("recipe_delete", i))
            => /\ conn'.roll_development = conn.roll_development
               /\ conn'.development_steps = conn.development_steps
               /\ conn'.rolls = conn.rolls
       /\ \A r \in DOMAIN conn.rolls :
            (Does("develop_recipe", r) \/ Does("save_again", r)
                \/ Does("delete_development", r) \/ Does("delete", r))
            => /\ conn'.dev_recipes = conn.dev_recipes
               /\ conn'.dev_recipe_steps = conn.dev_recipe_steps
       /\ \A r \in DOMAIN conn.rolls :
            Does("develop_recipe", r) =>
                \E c \in DOMAIN conn.dev_recipes :
                    /\ get_roll_development_by_roll(conn', r) # {}
                    /\ \A i \in get_roll_development_by_roll(conn', r) :
                         /\ get_development_steps(conn', i)
                                 = Names(Copied(get_dev_recipe_steps(conn, c)))
                         /\ conn'.roll_development[i].process_type
                                 = conn.dev_recipes[c].process_type]_vars

\* The recipe a roll was developed from has been deleted and the roll's
\* record still has its two steps.
C20_Witness ==
    /\ last.op = "recipe_delete" /\ last.code = "ok" /\ failures = 0
    /\ DOMAIN conn.dev_recipes = {}
    /\ \E i \in DOMAIN conn.roll_development :
        /\ conn.roll_development[i].dev_type = "self"
        /\ get_development_steps(conn, i) = <<"Fixer", "Developer">>

\* The seconds the round trip is tried on: around zero and the minute, an
\* hour and more, and below zero.
DurationRange == (0 - 61)..121 \cup {3599, 3600, 3661}

\* _parse_duration(_format_duration(x)) = x for None and for every number of
\* seconds of DurationRange.
DurationRoundTrip ==
    /\ _parse_duration(_format_duration(NoSeconds)) = NoSeconds
    /\ \A n \in DurationRange : _parse_duration(_format_duration(Seconds(n))) = Seconds(n)

\* This step is an Enter-development saved from the form after recipe c was
\* loaded into it, for roll r, ending without error.
DevelopsFrom(r, c) == Does("develop_recipe", r) /\ last'.arg.recipe = c

StockExists(v) == \A r \in DOMAIN v.rolls : v.rolls[r].film_stock_id \in DOMAIN v.film_stocks

\* C22: every roll, on the connection and committed, references a film stock
\* that exists; a Create naming a film stock that does not exist changes
\* nothing (no roll, no frame, no quantity); and a confirmed delete of a film
\* stock that a roll references ends with an error and changes nothing.
C22_RollsReferenceStock ==
    [][/\ StockExists(conn') /\ StockExists(disk')
       /\ (/\ today' = today
           /\ last'.op \in {"new_roll", "create_roll"}
           /\ last'.arg.stock \notin DOMAIN conn.film_stocks)
          => /\ conn' = conn /\ disk' = disk
             /\ last'.code # "ok"
       /\ \A s \in DOMAIN conn.film_stocks :
            (/\ today' = today
             /\ last'.op = "film_stock_delete" /\ last'.id = s
             /\ last'.code # "cancel"
             /\ \E r \in DOMAIN conn.rolls : conn.rolls[r].film_stock_id = s)
            => /\ last'.code = DB_DELETE
               /\ conn' = conn /\ disk' = disk]_vars

\* The delete of a film stock that a committed roll references has just been
\* refused, with no storage failure involved.
C22_Witness ==
    /\ last.op = "film_stock_delete" /\ last.code = DB_DELETE /\ failures = 0
    /\ last.id \in DOMAIN disk.film_stocks
    /\ \E r \in DOMAIN disk.rolls : disk.rolls[r].film_stock_id = last.id

\* A roll as it is when nothing has happened to it yet.
Untouched(roll) ==
    /\ roll.status = "fresh"
    /\ roll.camera_id = None
    /\ roll.loaded_date = None /\ roll.finished_date = None
    /\ roll.sent_for_dev_date = None /\ roll.developed_date = None
    /\ roll.scan_date = None

\* C23 as stated: every roll that comes into existence (a row of the
\* connection that neither the connection nor the file had before the step) is
\* fresh and has no date, whichever Create call made it.
C23_EveryCreateFresh ==
    [][\A r \in DOMAIN conn'.rolls \ (DOMAIN conn.rolls \cup DOMAIN disk.rolls) :
        Untouched(conn'.rolls[r])]_vars

\* C23, amended: a roll comes into existence (a row of the connection that
\* neither the connection nor the file had before the step) only in a Create
\* step; one made from the rolls screen (New roll) is fresh with no camera and
\* no loaded, finished, sent-for-development, developed or scan date; one made
\* by a direct call of create_roll has the status and the four dates of the
\* Roll the caller passed (fresh and none unless the caller set them) and no
\* scan date.
C23_NewRollFresh ==
    [][\A r \in DOMAIN conn'.rolls \ (DOMAIN conn.rolls \cup DOMAIN disk.rolls) :
        /\ today' = today
        /\ last'.op \in {"new_roll", "create_roll"}
        /\ last'.id = r
        /\ last'.op = "new_roll" => Untouched(conn'.rolls[r])
        /\ conn'.rolls[r] = [last'.arg.roll EXCEPT !.scan_date = None]
        /\ conn'.rolls[r].scan_date = None]_vars

\* A roll made from the rolls screen has just been committed fresh, beside a
\* roll that a direct call of create_roll made developed.
C23_Witness ==
    /\ \E r \in DOMAIN disk.rolls : Did("new_roll", r) /\ Untouched(disk.rolls[r])
    /\ \E r \in DOMAIN disk.rolls :
        disk.rolls[r].status = "developed" /\ disk.rolls[r].developed_date = None

\* The roll after Advance from loaded, shooting or developing, on day `day`.
AfterAdvance(roll, day) ==
    IF roll.status = "loaded" THEN [roll EXCEPT !.status = "shooting"]
    ELSE IF roll.status = "shooting"
    THEN [roll EXCEPT !.status = "finished", !.finished_date = day]
    ELSE [roll EXCEPT !.status = "developed", !.developed_date = day]

\* C24: an Advance of a loaded, shooting or developing roll that ends without
\* error makes it shooting, finished (finished_date the current date) or
\* developed (developed_date the current date) and writes nothing else: every
\* other field of the roll, every other roll, every frame, development
\* record, step and film stock on the connection is as before.
C24_AdvanceBumpsOnly ==
    [][\A r \in DOMAIN conn.rolls :
        (Does("advance", r) /\ conn.rolls[r].status \in {"loaded", "shooting", "developing"})
        => /\ conn'.rolls = [conn.rolls EXCEPT ![r] = AfterAdvance(conn.rolls[r], today)]
           /\ conn'.frames = conn.frames
           /\ conn'.roll_development = conn.roll_development
           /\ conn'.development_steps = conn.development_steps
           /\ conn'.film_stocks = conn.film_stocks
           /\ disk' = conn']_vars

\* A roll sent to a lab on day 1 has come back on day 2: Advance made it
\* developed and stamped the day.
C24_Witness ==
    \E r \in DOMAIN disk.rolls :
        /\ Did("advance", r)
        /\ disk.rolls[r].status = "developed"
        /\ disk.rolls[r].sent_for_dev_date = 1
        /\ disk.rolls[r].developed_date = 2
        /\ today = 2

\* C25: Advance on a developed roll returns without writing: the connection
\* and the committed store, and with them the roll's status, developed_date,
\* scan_date and scan_notes, are unchanged, and no error is raised.
C25_AdvancePastEndRejected ==
    [][\A r \in DOMAIN conn.rolls :
        (/\ today' = today
         /\ last'.op = "advance" /\ last'.id = r
         /\ conn.rolls[r].status = "developed")
        => /\ last'.code = "return"
           /\ conn' = conn /\ disk' = disk /\ failures' = failures]_vars

\* Advance has just been refused on a developed and scanned roll.
C25_Witness ==
    /\ last.op = "advance" /\ last.code = "return"
    /\ last.id \in DOMAIN disk.rolls
    /\ disk.rolls[last.id].status = "developed"
    /\ disk.rolls[last.id].developed_date # None
    /\ disk.rolls[last.id].scan_date # None
    /\ disk.rolls[last.id].scan_notes = "flatbed"

\* Every child row of the store has its parent row.
NoOrphans(v) ==
    /\ \A i \in DOMAIN v.frames : v.frames[i].roll_id \in DOMAIN v.rolls
    /\ \A i \in DOMAIN v.roll_development :
            v.roll_development[i].roll_id \in DOMAIN v.rolls
    /\ \A i \in DOMAIN v.development_steps :
            v.development_steps[i].development_id \in DOMAIN v.roll_development
    /\ \A i \in DOMAIN v.dev_recipe_steps :
            v.dev_recipe_steps[i].recipe_id \in DOMAIN v.dev_recipes

\* C26: on the connection and in the committed store every frame and every
\* development record belongs to a roll that exists, every development step
\* to a record that exists and every recipe step to a recipe that exists; and
\* a delete of a roll, of a roll's development record or of a recipe that
\* ends without error leaves no row that belonged to it.
C26_NoOrphans ==
    [][/\ NoOrphans(conn') /\ NoOrphans(disk')
       /\ \A r \in DOMAIN conn.rolls :
            Does("delete", r) =>
                /\ r \notin DOMAIN conn'.rolls
                /\ FramesOf(conn', r) = {}
                /\ get_roll_development_by_roll(conn', r) = {}
                /\ Cardinality(DOMAIN conn'.development_steps)
                     = Cardinality(DOMAIN conn.development_steps)
                        - Cardinality(StepsOf(conn, get_roll_development_by_roll(conn, r)))
       /\ \A r \in DOMAIN conn.rolls :
            Does("delete_development", r) =>
                /\ get_roll_development_by_roll(conn', r) = {}
                /\ \A k \in StepsOf(conn, get_roll_development_by_roll(conn, r)) :
                        k \notin DOMAIN conn'.development_steps
       /\ \A c \in DOMAIN conn.dev_recipes :
            Does("recipe_delete", c) =>
                /\ c \notin DOMAIN conn'.dev_recipes
                /\ RecipeStepsOf(conn', c) = {}]_vars

\* A development record that had steps has just been deleted and no step is
\* left, while the roll and its frames are still there.
C26_Witness ==
    \E r \in DOMAIN disk.rolls :
        /\ Did("delete_development", r)
        /\ disk.seq.development_steps > 0
        /\ DOMAIN disk.development_steps = {}
        /\ DOMAIN disk.roll_development = {}
        /\ FramesOf(disk, r) # {}

\* C27: Enter-development abandoned at the type choice, at the self form or
\* at the lab form writes nothing: the roll is still finished, its
\* sent_for_dev_date and developed_date are as before, and the development
\* records and steps on the connection and in the committed store are as
\* before.
C27_AbandonedDevelopment ==
    [][\A r \in DOMAIN conn.rolls :
        (today' = today /\ last'.op \in CancelPoints /\ last'.id = r)
        => /\ r \in DOMAIN conn'.rolls
           /\ conn'.rolls[r].status = "finished"
           /\ conn'.rolls[r] = conn.rolls[r]
           /\ conn'.roll_development = conn.roll_development
           /\ conn'.development_steps = conn.development_steps
           /\ disk' = disk /\ conn' = conn /\ failures' = failures]_vars

\* The lab form has just been cancelled on a committed finished roll that
\* has no development record and no hand-over date.
C27_Witness ==
    /\ last.op = "develop_lab_cancel" /\ last.code = "cancel"
    /\ last.id \in DOMAIN disk.rolls
    /\ disk.rolls[last.id].status = "finished"
    /\ disk.rolls[last.id].sent_for_dev_date = None
    /\ disk.rolls[last.id].developed_date = None
    /\ get_roll_development_by_roll(disk, last.id) = {}
    /\ DOMAIN disk.development_steps = {}

\* The development records of every roll of v agree with the roll's status.
DevelopmentMatchesStatus(v) ==
    \A r \in DOMAIN v.rolls :
        LET devs == get_roll_development_by_roll(v, r) IN
        /\ v.rolls[r].status \in {"developing", "developed"} => Cardinality(devs) = 1
        /\ v.rolls[r].status = "developing"
            => \A i \in devs : v.roll_development[i].dev_type = "lab"
        /\ v.rolls[r].status \in {"fresh", "loaded", "shooting", "finished"} => devs = {}

\* C28: in every state of the lifecycle a developing or developed roll has
\* exactly one RollDevelopment, a developing roll one of type lab, and a
\* fresh, loaded, shooting or finished roll has none, in the committed store
\* as on the connection.
C28_DevelopmentMatchesStatus ==
    DevelopmentMatchesStatus(disk) /\ DevelopmentMatchesStatus(conn)

\* The camera and the date stamps of every roll of v agree with its status.
DatesMatchStatus(v) ==
    \A r \in DOMAIN v.rolls :
        LET roll == v.rolls[r]
            idx == StatusIndex(roll.status)
        IN  /\ roll.loaded_date # None <=> idx >= StatusIndex("loaded")
            /\ roll.camera_id # None <=> idx >= StatusIndex("loaded")
            /\ roll.finished_date # None <=> idx >= StatusIndex("finished")
            /\ roll.sent_for_dev_date # None <=> idx >= StatusIndex("developing")
            /\ roll.developed_date # None <=> idx = StatusIndex("developed")
            /\ roll.scan_date # None => idx = StatusIndex("developed")

\* C29: in every state of the lifecycle, committed and on the connection, a
\* roll has loaded_date and a camera exactly when it is loaded or later,
\* finished_date exactly when it is finished or later, sent_for_dev_date
\* exactly when it is developing or developed, developed_date exactly when it
\* is developed, and a scan_date only when it is developed.
C29_DatesMatchStatus ==
    DatesMatchStatus(disk) /\ DatesMatchStatus(conn)

\* A committed roll is at the lab on day 2: loaded, finished and handed over,
\* not yet developed.
C29_Witness ==
    \E r \in DOMAIN disk.rolls :
        /\ disk.rolls[r].status = "developing"
        /\ disk.rolls[r].loaded_date = 1
        /\ disk.rolls[r].sent_for_dev_date = 2
        /\ disk.rolls[r].developed_date = None
        /\ failures = 1

\* C30: a roll is never stuck before developed: an Enter-development on a
\* finished roll, given valid input and meeting no storage failure, succeeds
\* and takes the roll to developing or developed, also when an earlier
\* attempt on the roll failed part-way.
C30_RetrySucceeds ==
    [][\A r \in DOMAIN conn.rolls :
        (/\ today' = today
         /\ last'.op \in {"develop_self", "develop_lab"} /\ last'.id = r
         /\ last'.code # "invalid"
         /\ failures' = failures)
        => /\ last'.code = "ok"
           /\ conn'.rolls[r].status \in {"developing", "developed"}]_vars

====
